---------------------------- MODULE Spec2Model ----------------------------
(***************************************************************************)
(* QR Error Correction Tester (src/src/App.tsx).                           *)
(*                                                                         *)
(* A JavaScript string is a sequence of UTF-16 code units (numbers); the   *)
(* value null is the one-element sequence Null, which no string equals.    *)
(* The platform calls the program makes (URLSearchParams, Number,          *)
(* Math.round, String, String.prototype.trim) are modelled by what the     *)
(* WHATWG URL standard and ECMA-262 say they do.                           *)
(***************************************************************************)
EXTENDS Integers, Sequences, FiniteSets, TLC

(***************************************************************************)
(* Bounds of the model.                                                    *)
(***************************************************************************)
\* user edits in one session (text, select, sliders, Reset Options)
MaxEdits == 2
\* largest image width and height the compositor is applied to, besides 320
MaxDim == 6
\* largest number written into a numeric query parameter
MaxParam == 101
\* the longest text the encoder takes at level H, scaled down from the capacity
\* of the largest symbol so that the sample text is too long and a typed one is not
MaxTextH == 10
(***************************************************************************)
(* Strings.                                                                *)
(***************************************************************************)
Null == <<-1>>


\* "https://example.com"
SampleText ==
  <<104, 116, 116, 112, 115, 58, 47, 47, 101, 120, 97, 109, 112, 108, 101, 46, 99, 111, 109>>

\* ECMA-262 WhiteSpace and LineTerminator code units
IsWhiteSpace(c) ==
  \/ c \in {9, 10, 11, 12, 13, 32, 160, 5760, 8232, 8233, 8239, 8287, 12288, 65279}
  \/ (c >= 8192 /\ c <= 8202)

RECURSIVE TrimStart(_)
TrimStart(s) ==
  IF s # <<>> /\ IsWhiteSpace(Head(s)) THEN TrimStart(Tail(s)) ELSE s

RECURSIVE TrimEnd(_)
TrimEnd(s) ==
  IF s # <<>> /\ IsWhiteSpace(s[Len(s)]) THEN TrimEnd(SubSeq(s, 1, Len(s) - 1)) ELSE s

\* String.prototype.trim
Trim(s) == TrimEnd(TrimStart(s))

IsDigit(c) == c >= 48 /\ c <= 57

RECURSIVE DigitsOf(_)
DigitsOf(n) == IF n < 10 THEN <<48 + n>> ELSE DigitsOf(n \div 10) \o <<48 + (n % 10)>>

\* String(n) for an integer n
NumToString(n) == IF n < 0 THEN <<45>> \o DigitsOf(0 - n) ELSE DigitsOf(n)

(***************************************************************************)
(* Number(value): ECMA-262 ToNumber of null or of a string                 *)
(* (StringToNumber).  The result is NaN, +-Infinity, or the rational       *)
(* num / den with den a power of ten.  Exact for every literal whose       *)
(* digits stay below 2^31, which covers the inputs drawn here.             *)
(***************************************************************************)
NaN == [fin |-> FALSE, num |-> 0, den |-> 1]
Infinite == [fin |-> FALSE, num |-> 1, den |-> 1]
Finite(n, d) == [fin |-> TRUE, num |-> n, den |-> d]

RECURSIVE Pow(_, _)
Pow(b, e) == IF e = 0 THEN 1 ELSE b * Pow(b, e - 1)

RECURSIVE LeadingDigits(_)
LeadingDigits(s) ==
  IF s # <<>> /\ IsDigit(Head(s)) THEN 1 + LeadingDigits(Tail(s)) ELSE 0

RECURSIVE DigitsValue(_, _)
DigitsValue(s, acc) ==
  IF s = <<>> THEN acc ELSE DigitsValue(Tail(s), acc * 10 + (Head(s) - 48))

DigitOfRadix(c) ==
  IF IsDigit(c) THEN c - 48
  ELSE IF c >= 65 /\ c <= 90 THEN c - 55
  ELSE IF c >= 97 /\ c <= 122 THEN c - 87
  ELSE 99

RECURSIVE RadixValue(_, _, _)
RadixValue(s, radix, acc) ==
  IF s = <<>> THEN acc ELSE RadixValue(Tail(s), radix, acc * radix + DigitOfRadix(Head(s)))

\* "Infinity"
InfinityLit == <<73, 110, 102, 105, 110, 105, 116, 121>>

\* 0x / 0o / 0b literals: no sign, at least one digit, every digit below the radix
NonDecimalLiteral(s) ==
  IF Len(s) >= 3 /\ s[1] = 48 /\ s[2] \in {120, 88, 111, 79, 98, 66}
  THEN LET radix == IF s[2] \in {120, 88} THEN 16 ELSE IF s[2] \in {111, 79} THEN 8 ELSE 2
           body == SubSeq(s, 3, Len(s))
       IN IF \A i \in 1..Len(body) : DigitOfRadix(body[i]) < radix
          THEN Finite(RadixValue(body, radix, 0), 1)
          ELSE NaN
  ELSE NaN

\* mant * 10^shift
DecimalValue(mant, shift) ==
  IF mant = 0 THEN Finite(0, 1)
  ELSE IF shift > 308 THEN Infinite
  ELSE IF shift >= 0 THEN Finite(mant * Pow(10, shift), 1)
  ELSE Finite(mant, Pow(10, 0 - shift))

\* d: what follows "e" and its sign
ExponentDigits(d, negative, mant, nFrac) ==
  IF d = <<>> \/ LeadingDigits(d) # Len(d) THEN NaN
  ELSE DecimalValue(mant, (IF negative THEN 0 - DigitsValue(d, 0) ELSE DigitsValue(d, 0)) - nFrac)

\* e: what follows the digits of the mantissa
ExponentPart(e, mant, nFrac) ==
  IF e = <<>> THEN DecimalValue(mant, 0 - nFrac)
  ELSE IF Head(e) \notin {101, 69} THEN NaN
  ELSE ExponentDigits(IF Len(e) >= 2 /\ e[2] \in {43, 45} THEN SubSeq(e, 3, Len(e)) ELSE Tail(e),
                      Len(e) >= 2 /\ e[2] = 45, mant, nFrac)

Mantissa(intPart, fracPart, rest) ==
  IF intPart \o fracPart = <<>> THEN NaN
  ELSE ExponentPart(rest, DigitsValue(intPart \o fracPart, 0), Len(fracPart))

AfterPoint(intPart, r, nFrac) ==
  Mantissa(intPart, SubSeq(r, 1, nFrac), SubSeq(r, nFrac + 1, Len(r)))

\* r: what follows the digits before the point
AfterInt(intPart, r) ==
  IF r # <<>> /\ Head(r) = 46
  THEN AfterPoint(intPart, Tail(r), LeadingDigits(Tail(r)))
  ELSE Mantissa(intPart, <<>>, r)

IntPart(s, nInt) == AfterInt(SubSeq(s, 1, nInt), SubSeq(s, nInt + 1, Len(s)))

\* StrUnsignedDecimalLiteral: Infinity | digits [. digits] [e [+-] digits] | . digits [e ...]
UnsignedDecimal(s) ==
  IF s = InfinityLit THEN Infinite ELSE IntPart(s, LeadingDigits(s))

Signed(negative, u) == IF negative /\ u.fin THEN Finite(0 - u.num, u.den) ELSE u

\* StringToNumber of a string already trimmed
StringToNumber(s) ==
  IF s = <<>> THEN Finite(0, 1)
  ELSE IF Len(s) >= 2 /\ s[1] = 48 /\ s[2] \in {120, 88, 111, 79, 98, 66}
       THEN NonDecimalLiteral(s)
  ELSE Signed(Head(s) = 45, UnsignedDecimal(IF Head(s) \in {43, 45} THEN Tail(s) ELSE s))

ToNumber(value) ==
  IF value = Null THEN Finite(0, 1) ELSE StringToNumber(Trim(value))

\* Math.round of a finite number: floor(x + 1/2)
MathRound(x) == (2 * x.num + x.den) \div (2 * x.den)

(***************************************************************************)
(* URLSearchParams (WHATWG URL standard, application/x-www-form-urlencoded)*)
(***************************************************************************)
IsHighSurrogate(c) == c >= 55296 /\ c <= 56319
IsLowSurrogate(c) == c >= 56320 /\ c <= 57343

\* conversion to a USVString: the scalar values of a string, an unpaired
\* surrogate becoming U+FFFD
RECURSIVE ScalarValues(_)
ScalarValues(s) ==
  IF s = <<>> THEN <<>>
  ELSE IF IsHighSurrogate(s[1]) /\ Len(s) >= 2 /\ IsLowSurrogate(s[2])
       THEN <<65536 + (s[1] - 55296) * 1024 + (s[2] - 56320)>>
              \o ScalarValues(Tail(Tail(s)))
  ELSE IF IsHighSurrogate(s[1]) \/ IsLowSurrogate(s[1])
       THEN <<65533>> \o ScalarValues(Tail(s))
  ELSE <<s[1]>> \o ScalarValues(Tail(s))

\* the UTF-16 code units of a sequence of scalar values
RECURSIVE CodeUnits(_)
CodeUnits(cps) ==
  IF cps = <<>> THEN <<>>
  ELSE IF cps[1] >= 65536
       THEN <<55296 + ((cps[1] - 65536) \div 1024), 56320 + ((cps[1] - 65536) % 1024)>>
              \o CodeUnits(Tail(cps))
  ELSE <<cps[1]>> \o CodeUnits(Tail(cps))

Utf8Bytes(cp) ==
  IF cp < 128 THEN <<cp>>
  ELSE IF cp < 2048 THEN <<192 + (cp \div 64), 128 + (cp % 64)>>
  ELSE IF cp < 65536
       THEN <<224 + (cp \div 4096), 128 + ((cp \div 64) % 64), 128 + (cp % 64)>>
  ELSE <<240 + (cp \div 262144), 128 + ((cp \div 4096) % 64),
         128 + ((cp \div 64) % 64), 128 + (cp % 64)>>

RECURSIVE Utf8Encode(_)
Utf8Encode(cps) ==
  IF cps = <<>> THEN <<>> ELSE Utf8Bytes(cps[1]) \o Utf8Encode(Tail(cps))

\* the UTF-8 decoder of the Encoding standard, errors replaced by U+FFFD;
\* need: continuation bytes still expected, cp: the code point so far,
\* lo..hi: the range the next continuation byte must lie in
RECURSIVE Utf8Decode(_, _, _, _, _)
Utf8Decode(bs, need, cp, lo, hi) ==
  IF bs = <<>> THEN (IF need > 0 THEN <<65533>> ELSE <<>>)
  ELSE LET b == bs[1]
           rest == Tail(bs)
       IN IF need = 0
          THEN IF b < 128 THEN <<b>> \o Utf8Decode(rest, 0, 0, 128, 191)
               ELSE IF b >= 194 /\ b <= 223 THEN Utf8Decode(rest, 1, b % 32, 128, 191)
               ELSE IF b >= 224 /\ b <= 239
                    THEN Utf8Decode(rest, 2, b % 16,
                                    IF b = 224 THEN 160 ELSE 128,
                                    IF b = 237 THEN 159 ELSE 191)
               ELSE IF b >= 240 /\ b <= 244
                    THEN Utf8Decode(rest, 3, b % 8,
                                    IF b = 240 THEN 144 ELSE 128,
                                    IF b = 244 THEN 143 ELSE 191)
               ELSE <<65533>> \o Utf8Decode(rest, 0, 0, 128, 191)
          ELSE IF b < lo \/ b > hi
               THEN <<65533>> \o Utf8Decode(bs, 0, 0, 128, 191)
          ELSE IF need = 1
               THEN <<cp * 64 + (b % 64)>> \o Utf8Decode(rest, 0, 0, 128, 191)
          ELSE Utf8Decode(rest, need - 1, cp * 64 + (b % 64), 128, 191)

HexDigit(n) == IF n < 10 THEN 48 + n ELSE 55 + n

IsHex(c) == IsDigit(c) \/ (c >= 65 /\ c <= 70) \/ (c >= 97 /\ c <= 102)

\* the application/x-www-form-urlencoded byte serializer, one byte
SerializeByte(b) ==
  IF b = 32 THEN <<43>>
  ELSE IF \/ b \in {42, 45, 46, 95}
          \/ IsDigit(b)
          \/ (b >= 65 /\ b <= 90)
          \/ (b >= 97 /\ b <= 122)
       THEN <<b>>
  ELSE <<37, HexDigit(b \div 16), HexDigit(b % 16)>>

RECURSIVE SerializeBytes(_)
SerializeBytes(bs) ==
  IF bs = <<>> THEN <<>> ELSE SerializeByte(bs[1]) \o SerializeBytes(Tail(bs))

\* one name or value, as URLSearchParams.toString() writes it
UrlEncode(s) == SerializeBytes(Utf8Encode(ScalarValues(s)))

\* URLSearchParams.toString() of a list of <<name, value>> pairs
RECURSIVE SerializeParams(_)
SerializeParams(ps) ==
  IF ps = <<>> THEN <<>>
  ELSE UrlEncode(ps[1][1]) \o <<61>> \o UrlEncode(ps[1][2])
         \o (IF Len(ps) > 1 THEN <<38>> \o SerializeParams(Tail(ps)) ELSE <<>>)

RECURSIVE PercentDecode(_)
PercentDecode(bs) ==
  IF bs = <<>> THEN <<>>
  ELSE IF bs[1] = 37 /\ Len(bs) >= 3 /\ IsHex(bs[2]) /\ IsHex(bs[3])
       THEN <<DigitOfRadix(bs[2]) * 16 + DigitOfRadix(bs[3])>>
              \o PercentDecode(SubSeq(bs, 4, Len(bs)))
  ELSE <<bs[1]>> \o PercentDecode(Tail(bs))

PlusToSpace(bs) == [i \in 1..Len(bs) |-> IF bs[i] = 43 THEN 32 ELSE bs[i]]

\* one name or value, as the urlencoded parser reads it
UrlDecode(bs) == CodeUnits(Utf8Decode(PercentDecode(PlusToSpace(bs)), 0, 0, 128, 191))

\* the index of the first c in s, 0 when there is none
RECURSIVE IndexOf(_, _, _)
IndexOf(s, c, i) ==
  IF i > Len(s) THEN 0 ELSE IF s[i] = c THEN i ELSE IndexOf(s, c, i + 1)

RECURSIVE SplitOn(_, _)
SplitOn(s, c) ==
  LET i == IndexOf(s, c, 1)
  IN IF i = 0 THEN <<s>> ELSE <<SubSeq(s, 1, i - 1)>> \o SplitOn(SubSeq(s, i + 1, Len(s)), c)

ParsePair(bs) ==
  LET i == IndexOf(bs, 61, 1)
  IN IF i = 0 THEN <<UrlDecode(bs), <<>>>>
     ELSE <<UrlDecode(SubSeq(bs, 1, i - 1)), UrlDecode(SubSeq(bs, i + 1, Len(bs)))>>

RECURSIVE ParsePairs(_)
ParsePairs(parts) ==
  IF parts = <<>> THEN <<>>
  ELSE IF parts[1] = <<>> THEN ParsePairs(Tail(parts))
  ELSE <<ParsePair(parts[1])>> \o ParsePairs(Tail(parts))

\* new URLSearchParams(search): a leading "?" is dropped
ParseParams(search) ==
  LET q == IF search # <<>> /\ search[1] = 63 THEN Tail(search) ELSE search
  IN ParsePairs(SplitOn(Utf8Encode(ScalarValues(q)), 38))

\* URLSearchParams.get(name): the first value of that name, or null
RECURSIVE ParamsGet(_, _)
ParamsGet(ps, name) ==
  IF ps = <<>> THEN Null
  ELSE IF ps[1][1] = name THEN ps[1][2]
  ELSE ParamsGet(Tail(ps), name)

(***************************************************************************)
(* The program's pure functions.                                           *)
(***************************************************************************)
errorLevels == {"L", "M", "Q", "H"}

\* the code units of an error level, and back
LevelString(l) ==
  CASE l = "L" -> <<76>> [] l = "M" -> <<77>> [] l = "Q" -> <<81>> [] l = "H" -> <<72>>

defaultOptions == [errorLevel |-> "M"]

defaultMaskOptions ==
  [sizePercent |-> 18, centerXPercent |-> 50, centerYPercent |-> 50, opacityPercent |-> 100]

Min(a, b) == IF a < b THEN a ELSE b
Max(a, b) == IF a > b THEN a ELSE b

clamp(value, min, max) == Min(max, Max(min, value))

\* RoundedOr without the clamp
RoundedOrUnclamped(parsed, fallback, min, max) ==
  IF ~parsed.fin THEN fallback ELSE MathRound(parsed)

RoundedOr(parsed, fallback, min, max) ==
  IF ~parsed.fin THEN fallback ELSE clamp(MathRound(parsed), min, max)

parseNumber(value, fallback, min, max) == RoundedOr(ToNumber(value), fallback, min, max)

\* parseErrorLevel looking at the first character only
parseErrorLevelPrefix(value, fallback) ==
  IF value # Null /\ value # <<>> /\ (\E l \in errorLevels : LevelString(l) = <<value[1]>>)
  THEN CHOOSE l \in errorLevels : LevelString(l) = <<value[1]>>
  ELSE fallback

parseErrorLevel(value, fallback) ==
  IF value # Null /\ value # <<>> /\ (\E l \in errorLevels : LevelString(l) = value)
  THEN CHOOSE l \in errorLevels : LevelString(l) = value
  ELSE fallback

\* the keys t, e, ms, mx, my, mo
KeyT == <<116>>
KeyE == <<101>>
KeyMs == <<109, 115>>
KeyMx == <<109, 120>>
KeyMy == <<109, 121>>
KeyMo == <<109, 111>>

\* textParam || 'https://example.com'
TextOrIfEmpty(textParam) ==
  IF textParam # Null /\ textParam # <<>> THEN textParam ELSE SampleText

\* textParam ?? 'https://example.com'
TextOr(textParam) == IF textParam # Null THEN textParam ELSE SampleText

StateOfParams(params) ==
  [text |-> TextOr(ParamsGet(params, KeyT)),
   options |-> [errorLevel |-> parseErrorLevel(ParamsGet(params, KeyE),
                                               defaultOptions.errorLevel)],
   maskOptions |->
     [sizePercent |-> parseNumber(ParamsGet(params, KeyMs),
                                  defaultMaskOptions.sizePercent, 0, 45),
      centerXPercent |-> parseNumber(ParamsGet(params, KeyMx),
                                     defaultMaskOptions.centerXPercent, 0, 100),
      centerYPercent |-> parseNumber(ParamsGet(params, KeyMy),
                                     defaultMaskOptions.centerYPercent, 0, 100),
      opacityPercent |-> parseNumber(ParamsGet(params, KeyMo),
                                     defaultMaskOptions.opacityPercent, 10, 100)]]

\* search: window.location.search (window is defined: main.tsx renders in a browser)
parsePermalinkState(search) == StateOfParams(ParseParams(search))

\* createPermalink with the values of mx and my exchanged
createPermalinkSwapped(t, o, mo) ==
  <<63>> \o SerializeParams(<<
    <<KeyT, t>>,
    <<KeyE, LevelString(o.errorLevel)>>,
    <<KeyMs, NumToString(mo.sizePercent)>>,
    <<KeyMx, NumToString(mo.centerYPercent)>>,
    <<KeyMy, NumToString(mo.centerXPercent)>>,
    <<KeyMo, NumToString(mo.opacityPercent)>> >>)

\* the query is never empty (six keys are set), so the pathname branch is dead
createPermalink(t, o, mo) ==
  <<63>> \o SerializeParams(<<
    <<KeyT, t>>,
    <<KeyE, LevelString(o.errorLevel)>>,
    <<KeyMs, NumToString(mo.sizePercent)>>,
    <<KeyMx, NumToString(mo.centerXPercent)>>,
    <<KeyMy, NumToString(mo.centerYPercent)>>,
    <<KeyMo, NumToString(mo.opacityPercent)>> >>)

\* the status applyMaskAndTest computes; decoded: the decoder's text, or Null
\* when jsQR finds no code
StatusOf(normalizedText, decodedText) ==
  IF normalizedText = <<>> THEN "untested"
  ELSE IF decodedText = normalizedText THEN "success"
  ELSE "failed"

\* DecodeStatusOf comparing with the text as typed
DecodeStatusUntrimmed(t, decoded) ==
  StatusOf(t, IF decoded # Null THEN decoded ELSE <<>>)

DecodeStatusOf(t, decoded) ==
  StatusOf(Trim(t), IF decoded # Null THEN decoded ELSE <<>>)

\* the square applyMaskAndTest paints on a width x height canvas: none when
\* sizePercent is 0, else its corner, side and fill alpha (in percent)
NoRect == <<>>

\* SquareOfSide without the clamps
SquareUnclamped(width, height, mo, side) ==
  <<[x |-> MathRound(Finite(width * mo.centerXPercent - 50 * side, 100)),
     y |-> MathRound(Finite(height * mo.centerYPercent - 50 * side, 100)),
     side |-> side,
     alpha |-> clamp(mo.opacityPercent, 0, 100)]>>

SquareOfSide(width, height, mo, side) ==
  <<[x |-> clamp(MathRound(Finite(width * mo.centerXPercent - 50 * side, 100)),
                 0, width - side),
     y |-> clamp(MathRound(Finite(height * mo.centerYPercent - 50 * side, 100)),
                 0, height - side),
     side |-> side,
     alpha |-> clamp(mo.opacityPercent, 0, 100)]>>

\* MaskRect without the test of sizePercent
MaskRectAlways(width, height, mo) ==
  SquareOfSide(width, height, mo,
               Max(1, MathRound(Finite(Min(width, height) * mo.sizePercent, 100))))

MaskRect(width, height, mo) ==
  IF mo.sizePercent > 0
  THEN SquareOfSide(width, height, mo,
                    Max(1, MathRound(Finite(Min(width, height) * mo.sizePercent, 100))))
  ELSE NoRect

(***************************************************************************)
(* The App component: React state, the browser address, and the            *)
(* asynchronous runs in flight.                                            *)
(*                                                                         *)
(* A data URL is modelled by the picture it holds: the empty string is     *)
(* <<>>, and the URL of a picture is <<picture>>, a picture being the      *)
(* text and error level the code encodes plus the square painted on it.    *)
(* React runs the effects of a commit, and the render that their own       *)
(* setState calls ask for, before the browser delivers the next event or   *)
(* resolves the next promise: an action is one event with every render     *)
(* and effect it causes.                                                   *)
(***************************************************************************)
VARIABLES
  mounted,        \* the component has rendered and run its effects once
  text, options, maskOptions,
  qrDataUrl, maskedDataUrl, decodeStatus, errorMessage,
  defaultObjects, \* which of options, maskOptions hold the module's default object
  address,        \* window.location.search
  historyLength,  \* window.history.length
  encodeRuns,     \* makeQrDataUrl promises not yet settled, with their active flag
  maskRuns,       \* applyMaskAndTest promises not yet settled, with their active flag
  edits,          \* user edits so far
  lastOp,         \* the last event handled, and whether its run was still active
  codec,          \* the permalink codec applied to drawn inputs (SpecCodec)
  probe           \* applyMaskAndTest's geometry and classifier on drawn inputs (SpecMask)

vars ==
  <<mounted, text, options, maskOptions, qrDataUrl, maskedDataUrl, decodeStatus,
    errorMessage, defaultObjects, address, historyLength, encodeRuns, maskRuns,
    edits, lastOp, codec, probe>>

appVars ==
  <<mounted, text, options, maskOptions, qrDataUrl, maskedDataUrl, decodeStatus,
    errorMessage, defaultObjects, address, historyLength, encodeRuns, maskRuns,
    edits, lastOp>>

EnterTextMessage == "Please enter text to generate a QR code."
EncodeFailedMessage == "Failed to generate QR code. Please check your inputs."

QrWidth == 320

\* the picture QRCode.toDataURL draws for a text and options
QrPicture(t, o) == [text |-> t, errorLevel |-> o.errorLevel, rect |-> NoRect]

\* what makeQrDataUrl resolves with
makeQrDataUrl(t, o) == <<QrPicture(t, o)>>

\* what the canvas holds after drawImage and fillRect, as canvas.toDataURL exports it
MaskedUrl(sourceDataUrl, mo) ==
  <<[sourceDataUrl[1] EXCEPT !.rect = MaskRect(QrWidth, QrWidth, mo)]>>

\* what jsQR may answer for the canvas it is given: no code, or the text encoded
DecoderResults(canvasDataUrl) == {Null, canvasDataUrl[1].text}

\* the state one render sees and its effects update
View ==
  [text |-> text, options |-> options, maskOptions |-> maskOptions,
   qrDataUrl |-> qrDataUrl, maskedDataUrl |-> maskedDataUrl,
   decodeStatus |-> decodeStatus, errorMessage |-> errorMessage,
   address |-> address, historyLength |-> historyLength,
   encodeRuns |-> encodeRuns, maskRuns |-> maskRuns]

\* a name for a new promise: the least number no unsettled one of its kind bears
NewId(runs) ==
  CHOOSE i \in 1..(Cardinality(runs) + 1) :
    /\ \A r \in runs : r.id # i
    /\ \A j \in 1..(i - 1) : \E r \in runs : r.id = j

\* an effect's cleanup: active = false in the closure of every earlier run
Deactivate(runs) == {[r EXCEPT !.active = FALSE] : r \in runs}

\* history.replaceState(null, '', nextPermalink): the entry is replaced
PermalinkEffect(s) ==
  [s EXCEPT !.address = createPermalink(s.text, s.options, s.maskOptions)]

\* StartEncode without setErrorMessage('')
StartEncodeKeepsMessage(s, normalizedText) ==
  IF normalizedText = <<>>
  THEN [s EXCEPT !.errorMessage = EnterTextMessage,
                 !.qrDataUrl = <<>>,
                 !.maskedDataUrl = <<>>,
                 !.decodeStatus = "untested"]
  ELSE [s EXCEPT !.encodeRuns = s.encodeRuns \cup
                    {[id |-> NewId(s.encodeRuns), text |-> normalizedText,
                      options |-> s.options, active |-> TRUE]}]

StartEncode(s, normalizedText) ==
  IF normalizedText = <<>>
  THEN [s EXCEPT !.errorMessage = EnterTextMessage,
                 !.qrDataUrl = <<>>,
                 !.maskedDataUrl = <<>>,
                 !.decodeStatus = "untested"]
  ELSE [s EXCEPT !.errorMessage = "",
                 !.encodeRuns = s.encodeRuns \cup
                    {[id |-> NewId(s.encodeRuns), text |-> normalizedText,
                      options |-> s.options, active |-> TRUE]}]

\* the encode effect: the cleanup of its last run, then its body
EncodeEffect(s) ==
  StartEncode([s EXCEPT !.encodeRuns = Deactivate(s.encodeRuns)], Trim(s.text))

StartMask(s, rendered) ==
  IF rendered = <<>>
  THEN s
  ELSE [s EXCEPT !.maskRuns = s.maskRuns \cup
                    {[id |-> NewId(s.maskRuns), source |-> rendered, text |-> s.text,
                      maskOptions |-> s.maskOptions, active |-> TRUE]}]

\* the mask effect; rendered: the qrDataUrl of the render whose effect this is
MaskEffect(s, rendered) ==
  StartMask([s EXCEPT !.maskRuns = Deactivate(s.maskRuns)], rendered)

\* the permalink effect with maskOptions missing from its dependencies
PermalinkStepNoMask(s, deps) ==
  IF deps \cap {"options", "text"} # {} THEN PermalinkEffect(s) ELSE s

PermalinkStep(s, deps) ==
  IF deps \cap {"maskOptions", "options", "text"} # {} THEN PermalinkEffect(s) ELSE s

\* the encode effect with maskOptions among its dependencies
EncodeStepOnMask(s, deps) ==
  IF deps \cap {"maskOptions", "options", "text"} # {} THEN EncodeEffect(s) ELSE s

EncodeStep(s, deps) ==
  IF deps \cap {"options", "text"} # {} THEN EncodeEffect(s) ELSE s

MaskStep(s, rendered, deps) ==
  IF deps \cap {"maskOptions", "qrDataUrl", "text"} # {} THEN MaskEffect(s, rendered) ELSE s

\* one commit: the effects whose dependencies changed, in the order of the hooks;
\* the state the encode effect sets is seen by the next render only
Commit(v, deps) ==
  MaskStep(EncodeStep(PermalinkStep(v, deps), deps), v.qrDataUrl, deps)

\* Recommit with the mask effect not depending on qrDataUrl
RecommitNever(c, rendered) == c

\* c: the state after a commit of a render that saw qrDataUrl = rendered
Recommit(c, rendered) ==
  IF c.qrDataUrl # rendered THEN Commit(c, {"qrDataUrl"}) ELSE c

\* the commit of a render, and the commit of the render its effects asked for
Settle(v, deps) == Recommit(Commit(v, deps), v.qrDataUrl)

\* the variables take the values of s
Apply(s) ==
  \E next \in {s} :
    /\ text' = next.text
    /\ options' = next.options
    /\ maskOptions' = next.maskOptions
    /\ qrDataUrl' = next.qrDataUrl
    /\ maskedDataUrl' = next.maskedDataUrl
    /\ decodeStatus' = next.decodeStatus
    /\ errorMessage' = next.errorMessage
    /\ address' = next.address
    /\ historyLength' = next.historyLength
    /\ encodeRuns' = next.encodeRuns
    /\ maskRuns' = next.maskRuns

NoState == [text |-> Null, options |-> defaultOptions, maskOptions |-> defaultMaskOptions]

CodecOff == [origin |-> "off", inQuery |-> Null, inState |-> NoState, query |-> Null,
             state |-> NoState, step |-> 0]

ProbeOff == [kind |-> "off", text |-> Null, decoded |-> Null, width |-> 0, height |-> 0,
             maskOptions |-> defaultMaskOptions, done |-> FALSE, status |-> "", rect |-> NoRect]

(***************************************************************************)
(* Inputs drawn.                                                           *)
(***************************************************************************)
\* the addresses a session is opened with: the bare page, and a hand-written
\* one with a blank text and out-of-range and non-numeric values
\* (?t=+&e=Z&ms=999&mx=-5&my=abc&mo=1)
InitialSearches ==
  { <<>>,
    <<63, 116, 61, 43, 38, 101, 61, 90, 38, 109, 115, 61, 57, 57, 57, 38, 109, 120, 61, 45, 53, 38, 109, 121, 61, 97, 98, 99, 38, 109, 111, 61, 49>> }

\* what the user types: nothing, " b"
TextInputs == {<<>>, <<32, 98>>}
LevelInputs == {"H"}
\* slider positions: the range inputs allow 0..45, 0..100, 0..100 and 10, 15, .. 100
MaskSizeInputs == {0}
CenterXInputs == {0}
CenterYInputs == {100}
OpacityInputs == {10}

\* the App component before its first render, window.location.search being search
AppStart(search) ==
  /\ mounted = FALSE
  /\ address = search
  /\ \E initialState \in {parsePermalinkState(search)} :
       /\ text = initialState.text
       /\ options = initialState.options
       /\ maskOptions = initialState.maskOptions
  /\ qrDataUrl = <<>>
  /\ maskedDataUrl = <<>>
  /\ decodeStatus = "untested"
  /\ errorMessage = ""
  /\ defaultObjects = {}
  /\ historyLength = 1
  /\ encodeRuns = {}
  /\ maskRuns = {}
  /\ edits = 0
  /\ lastOp = [op |-> "init", live |-> TRUE]

Init ==
  /\ \E search \in InitialSearches : AppStart(search)
  /\ codec = CodecOff
  /\ probe = ProbeOff

AllDeps == {"text", "options", "maskOptions", "qrDataUrl"}

\* the first render: every effect runs; under React.StrictMode a development
\* build runs every effect, its cleanup, and the effect again
Mount ==
  /\ ~mounted
  /\ mounted' = TRUE
  /\ \E strict \in BOOLEAN :
       Apply(Settle(IF strict THEN Commit(View, AllDeps) ELSE View, AllDeps))
  /\ lastOp' = [op |-> "Mount", live |-> TRUE]
  /\ UNCHANGED <<defaultObjects, edits, codec, probe>>

\* an event handler's setState calls gave the state s, changing the slots in deps
Edit(name, s, deps, objects) ==
  /\ mounted
  /\ edits < MaxEdits
  /\ edits' = edits + 1
  /\ Apply(Settle(s, deps))
  /\ defaultObjects' = objects
  /\ lastOp' = [op |-> name, live |-> TRUE]
  /\ UNCHANGED <<mounted, codec, probe>>

\* Textarea onChange
EditText(t) ==
  /\ t # text
  /\ Edit("EditText", [View EXCEPT !.text = t], {"text"}, defaultObjects)

\* Select onChange: a new options object
SelectErrorLevel(l) ==
  /\ l # options.errorLevel
  /\ Edit("SelectErrorLevel", [View EXCEPT !.options = [options EXCEPT !.errorLevel = l]],
          {"options"}, defaultObjects \ {"options"})

\* the four range inputs' onChange: a new maskOptions object
SlideMaskSize(n) ==
  /\ n # maskOptions.sizePercent
  /\ Edit("SlideMaskSize",
          [View EXCEPT !.maskOptions = [maskOptions EXCEPT !.sizePercent = n]],
          {"maskOptions"}, defaultObjects \ {"maskOptions"})

SlideMaskX(n) ==
  /\ n # maskOptions.centerXPercent
  /\ Edit("SlideMaskX",
          [View EXCEPT !.maskOptions = [maskOptions EXCEPT !.centerXPercent = n]],
          {"maskOptions"}, defaultObjects \ {"maskOptions"})

SlideMaskY(n) ==
  /\ n # maskOptions.centerYPercent
  /\ Edit("SlideMaskY",
          [View EXCEPT !.maskOptions = [maskOptions EXCEPT !.centerYPercent = n]],
          {"maskOptions"}, defaultObjects \ {"maskOptions"})

SlideMaskOpacity(n) ==
  /\ n # maskOptions.opacityPercent
  /\ Edit("SlideMaskOpacity",
          [View EXCEPT !.maskOptions = [maskOptions EXCEPT !.opacityPercent = n]],
          {"maskOptions"}, defaultObjects \ {"maskOptions"})

\* Reset Options without setOptions(defaultOptions)
ResetMaskOnly ==
  /\ mounted
  /\ Edit("ResetOptions",
          [View EXCEPT !.maskOptions = defaultMaskOptions],
          {"maskOptions"} \ defaultObjects,
          defaultObjects \cup {"maskOptions"})

\* Reset Options onClick: a slot that already holds the default object is not changed
ResetOptions ==
  /\ mounted
  /\ Edit("ResetOptions",
          [View EXCEPT !.options = defaultOptions, !.maskOptions = defaultMaskOptions],
          {"options", "maskOptions"} \ defaultObjects,
          {"options", "maskOptions"})

\* a state change outside an event handler: the render and its effects follow
\* when a slot's value changed
Rerender(s) == Apply(Recommit(s, qrDataUrl))

\* EncodeResolve without the test of active
EncodeResolveUnchecked(r) ==
  /\ r \in encodeRuns
  /\ Rerender([View EXCEPT !.encodeRuns = encodeRuns \ {r},
                           !.qrDataUrl = makeQrDataUrl(r.text, r.options)])
  /\ lastOp' = [op |-> "EncodeResolve", live |-> r.active]
  /\ UNCHANGED <<mounted, defaultObjects, edits, codec, probe>>

\* makeQrDataUrl's promise fulfils: the then callback
EncodeResolve(r) ==
  /\ r \in encodeRuns
  /\ LET rest == [View EXCEPT !.encodeRuns = encodeRuns \ {r}]
     IN IF ~r.active
        THEN Apply(rest)
        ELSE Rerender([rest EXCEPT !.qrDataUrl = makeQrDataUrl(r.text, r.options)])
  /\ lastOp' = [op |-> "EncodeResolve", live |-> r.active]
  /\ UNCHANGED <<mounted, defaultObjects, edits, codec, probe>>

\* makeQrDataUrl's promise rejects: the catch callback
EncodeReject(r) ==
  /\ r \in encodeRuns
  /\ LET rest == [View EXCEPT !.encodeRuns = encodeRuns \ {r}]
     IN IF ~r.active
        THEN Apply(rest)
        ELSE Rerender([rest EXCEPT !.errorMessage = EncodeFailedMessage,
                                   !.qrDataUrl = <<>>,
                                   !.maskedDataUrl = <<>>,
                                   !.decodeStatus = "failed"])
  /\ lastOp' = [op |-> "EncodeReject", live |-> r.active]
  /\ UNCHANGED <<mounted, defaultObjects, edits, codec, probe>>

\* applyMaskAndTest's promise fulfils, the decoder having answered decoded
MaskResolve(r, decoded) ==
  /\ r \in maskRuns
  /\ decoded \in DecoderResults(MaskedUrl(r.source, r.maskOptions))
  /\ LET rest == [View EXCEPT !.maskRuns = maskRuns \ {r}]
     IN IF ~r.active
        THEN Apply(rest)
        ELSE Rerender([rest EXCEPT !.maskedDataUrl = MaskedUrl(r.source, r.maskOptions),
                                   !.decodeStatus = DecodeStatusOf(r.text, decoded)])
  /\ lastOp' = [op |-> "MaskResolve", live |-> r.active]
  /\ UNCHANGED <<mounted, defaultObjects, edits, codec, probe>>

\* applyMaskAndTest's promise rejects (the image fails to load, or no 2d context)
MaskReject(r) ==
  /\ r \in maskRuns
  /\ LET rest == [View EXCEPT !.maskRuns = maskRuns \ {r}]
     IN IF ~r.active
        THEN Apply(rest)
        ELSE Rerender([rest EXCEPT !.decodeStatus = "failed"])
  /\ lastOp' = [op |-> "MaskReject", live |-> r.active]
  /\ UNCHANGED <<mounted, defaultObjects, edits, codec, probe>>

Next ==
  \/ Mount
  \/ \E t \in TextInputs : EditText(t)
  \/ \E l \in LevelInputs : SelectErrorLevel(l)
  \/ \E n \in MaskSizeInputs : SlideMaskSize(n)
  \/ \E n \in CenterXInputs : SlideMaskX(n)
  \/ \E n \in CenterYInputs : SlideMaskY(n)
  \/ \E n \in OpacityInputs : SlideMaskOpacity(n)
  \/ ResetOptions
  \/ \E r \in encodeRuns : EncodeResolve(r)
  \/ \E r \in encodeRuns : EncodeReject(r)
  \/ \E r \in maskRuns :
       \E d \in DecoderResults(MaskedUrl(r.source, r.maskOptions)) : MaskResolve(r, d)
  \/ \E r \in maskRuns : MaskReject(r)

Spec == Init /\ [][Next]_vars

(***************************************************************************)
(* The session with an encoder that fails exactly on the texts too long    *)
(* for the level and a decoder that reads every unpainted code; every      *)
(* promise in flight settles.                                              *)
(***************************************************************************)
\* QRCode.toDataURL throws when the text does not fit a symbol of the level
Encodable(t, o) == o.errorLevel # "H" \/ Len(t) <= MaxTextH

\* jsQR reading a canvas: an unpainted code is read, a painted one may not be
ExactDecoderResults(canvasDataUrl) ==
  IF canvasDataUrl[1].rect = NoRect
  THEN {canvasDataUrl[1].text}
  ELSE DecoderResults(canvasDataUrl)

\* the edits of this session: the text, the level, and two of the sliders
UserEdit ==
  \/ \E t \in TextInputs : EditText(t)
  \/ \E l \in LevelInputs : SelectErrorLevel(l)
  \/ \E n \in MaskSizeInputs : SlideMaskSize(n)
  \/ \E n \in CenterYInputs : SlideMaskY(n)

EncodeSettles ==
  \E r \in encodeRuns :
    IF Encodable(r.text, r.options) THEN EncodeResolve(r) ELSE EncodeReject(r)

MaskSettles ==
  \E r \in maskRuns :
    \/ \E d \in ExactDecoderResults(MaskedUrl(r.source, r.maskOptions)) : MaskResolve(r, d)
    \/ MaskReject(r)

NextLive == Mount \/ UserEdit \/ EncodeSettles \/ MaskSettles

SpecLive ==
  /\ Init
  /\ [][NextLive]_vars
  /\ WF_vars(EncodeSettles)
  /\ WF_vars(MaskSettles)

(***************************************************************************)
(* The permalink codec on drawn inputs: parsePermalinkState of a query     *)
(* and createPermalink of the state it gives, or createPermalink of a      *)
(* state and parsePermalinkState of the query it gives.                    *)
(***************************************************************************)
\* "?" and the pairs key=raw joined by "&"; a pair whose raw value is Null is left out
RECURSIVE JoinPairs(_)
JoinPairs(ps) ==
  IF ps = <<>> THEN <<>>
  ELSE IF ps[1][2] = Null THEN JoinPairs(Tail(ps))
  ELSE ps[1][1] \o <<61>> \o ps[1][2]
         \o (IF JoinPairs(Tail(ps)) = <<>> THEN <<>> ELSE <<38>> \o JoinPairs(Tail(ps)))

RawQuery(t, e, ms, mx, my, mo) ==
  <<63>> \o JoinPairs(<< <<KeyT, t>>, <<KeyE, e>>, <<KeyMs, ms>>, <<KeyMx, mx>>,
                        <<KeyMy, my>>, <<KeyMo, mo>> >>)

\* the t values written: none, empty, hi, a+b, a%20b, %2b, ~, %F0%9F%98%80, +
RawTexts ==
  { Null, <<>>, <<104, 105>>, <<97, 43, 98>>, <<97, 37, 50, 48, 98>>, <<37, 50, 98>>, <<126>>,
    <<37, 70, 48, 37, 57, 70, 37, 57, 56, 37, 56, 48>>, <<43>> }

\* the e values written: none, empty, L, M, Q, H, q, Z, LM
RawLevels ==
  { Null, <<>>, <<76>>, <<77>>, <<81>>, <<72>>, <<113>>, <<90>>, <<76, 77>> }

\* the numeric values written: none, empty, abc, 12.5, 1e1, 0x10, %207, Infinity,
\* -Infinity, NaN, 010, 4.4, 45.5, -0.4, and every integer from -1 to MaxParam
RawNumbers ==
  { Null, <<>>, <<97, 98, 99>>, <<49, 50, 46, 53>>, <<49, 101, 49>>, <<48, 120, 49, 48>>, <<37, 50, 48, 55>>,
    <<73, 110, 102, 105, 110, 105, 116, 121>>, <<45, 73, 110, 102, 105, 110, 105, 116, 121>>,
    <<78, 97, 78>>, <<48, 49, 48>>, <<52, 46, 52>>, <<52, 53, 46, 53>>, <<45, 48, 46, 52>> }
  \cup { NumToString(n) : n \in -1..MaxParam }

\* the four numeric values of a query: one value in all four, or a few mixes
RawNumberTuples ==
  { <<r, r, r, r>> : r \in RawNumbers }
  \cup { <<<<49, 48>>, <<53, 48>>, <<53, 48>>, <<53, 48>>>>,
         <<<<48>>, <<48>>, <<49, 48, 48>>, <<49, 48>>>>,
         <<<<52, 53>>, <<49, 48, 48>>, <<48>>, <<49, 48, 48>>>> }

Queries ==
  { RawQuery(t, e, v[1], v[2], v[3], v[4]) : t \in RawTexts, e \in RawLevels,
                                             v \in RawNumberTuples }
  \cup { <<>>, <<63>>,
         \* ?e=H&t=x&mo=20&my=30&mx=40&ms=5 and ?t=x&t=y&ms=1&ms=2
         <<63, 101, 61, 72, 38, 116, 61, 120, 38, 109, 111, 61, 50, 48, 38, 109, 121, 61, 51, 48, 38, 109, 120, 61, 52, 48, 38, 109, 115, 61, 53>>,
         <<63, 116, 61, 120, 38, 116, 61, 121, 38, 109, 115, 61, 49, 38, 109, 115, 61, 50>> }

\* the texts of the states drawn: empty, hi, " a b ", &=+%#?~, e-acute and a line
\* break, U+1F600 (a surrogate pair), a lone high surrogate, a lone low surrogate
\* between letters
StateTexts ==
  { <<>>, <<104, 105>>, <<32, 97, 32, 98, 32>>, <<38, 61, 43, 37, 35, 63, 126>>, <<233, 10>>, <<55357, 56832>>,
    <<55296>>, <<97, 56320, 98>> }

\* mask options covering every value of every field
StateMasks ==
  { [sizePercent |-> Min(n, 45), centerXPercent |-> n, centerYPercent |-> 100 - n,
     opacityPercent |-> Max(10, n)] : n \in 0..100 }

States ==
  { [text |-> t, options |-> [errorLevel |-> l], maskOptions |-> mo] :
      t \in StateTexts, l \in errorLevels, mo \in StateMasks }

\* the App component is not running
AppIdle == AppStart(<<>>)

InitCodec ==
  /\ AppIdle
  /\ probe = ProbeOff
  /\ \/ \E q \in Queries :
          codec = [origin |-> "query", inQuery |-> q, inState |-> NoState, query |-> q,
                   state |-> NoState, step |-> 0]
     \/ \E st \in States :
          codec = [origin |-> "state", inQuery |-> Null, inState |-> st, query |-> Null,
                   state |-> st, step |-> 0]

\* the page is opened at codec.query
CodecParse ==
  /\ \/ codec.origin = "query" /\ codec.step = 0
     \/ codec.origin = "state" /\ codec.step = 1
  /\ codec' = [codec EXCEPT !.state = parsePermalinkState(codec.query), !.step = @ + 1]
  /\ UNCHANGED <<appVars, probe>>

\* the permalink effect writes the address of codec.state
CodecCreate ==
  /\ \/ codec.origin = "state" /\ codec.step = 0
     \/ codec.origin = "query" /\ codec.step = 1
  /\ codec' = [codec EXCEPT
                 !.query = createPermalink(codec.state.text, codec.state.options,
                                           codec.state.maskOptions),
                 !.step = @ + 1]
  /\ UNCHANGED <<appVars, probe>>

NextCodec == CodecParse \/ CodecCreate

SpecCodec == InitCodec /\ [][NextCodec]_vars

(***************************************************************************)
(* applyMaskAndTest's square and status on drawn inputs.                   *)
(***************************************************************************)
\* the image sides drawn: 1..MaxDim and the side QRCode.toDataURL is asked for
Dims == (1..MaxDim) \cup {QrWidth}

ProbeMasks ==
  [sizePercent : {0, 1, 2, 17, 18, 33, 44, 45}, centerXPercent : {0, 1, 25, 50, 99, 100},
   centerYPercent : {0, 50, 75, 100}, opacityPercent : {10, 100}]

\* texts typed: empty, blank, a, " a ", "a b", A, and a no-break space before a
ProbeTexts == { <<>>, <<32, 10>>, <<97>>, <<32, 97, 32>>, <<97, 32, 98>>, <<65>>, <<160, 97>> }

\* decoder answers: no code, or the text read
ProbeDecoded == { Null, <<>>, <<97>>, <<32, 97, 32>>, <<97, 32, 98>>, <<65>>, <<32>> }

InitMask ==
  /\ AppIdle
  /\ codec = CodecOff
  /\ \/ \E w \in Dims, h \in Dims, mo \in ProbeMasks :
          probe = [ProbeOff EXCEPT !.kind = "square", !.width = w, !.height = h,
                                   !.maskOptions = mo]
     \/ \E t \in ProbeTexts, d \in ProbeDecoded :
          probe = [ProbeOff EXCEPT !.kind = "status", !.text = t, !.decoded = d]

\* the square painted on a canvas of the probe's size
ProbeSquare ==
  /\ probe.kind = "square" /\ ~probe.done
  /\ probe' = [probe EXCEPT !.rect = MaskRect(probe.width, probe.height, probe.maskOptions),
                            !.done = TRUE]
  /\ UNCHANGED <<appVars, codec>>

\* the status computed for the probe's text and decoder answer
ProbeStatus ==
  /\ probe.kind = "status" /\ ~probe.done
  /\ probe' = [probe EXCEPT !.status = DecodeStatusOf(probe.text, probe.decoded),
                            !.done = TRUE]
  /\ UNCHANGED <<appVars, codec>>

NextMask == ProbeSquare \/ ProbeStatus

SpecMask == InitMask /\ [][NextMask]_vars

(***************************************************************************)
(* Properties.                                                             *)
(***************************************************************************)
Display == <<qrDataUrl, maskedDataUrl, decodeStatus, errorMessage>>

C2_InvalidNumberFallsBack ==
  (codec.origin = "query" /\ codec.step >= 1) =>
    LET params == ParseParams(codec.inQuery)
        Invalid(v) == v = Null \/ v = <<>> \/ ~ToNumber(v).fin
        mo == codec.state.maskOptions
    IN /\ Invalid(ParamsGet(params, KeyMs)) => mo.sizePercent = 18
       /\ Invalid(ParamsGet(params, KeyMx)) => mo.centerXPercent = 50
       /\ Invalid(ParamsGet(params, KeyMy)) => mo.centerYPercent = 50
       /\ Invalid(ParamsGet(params, KeyMo)) => mo.opacityPercent = 100

\* C3: after the encode run of the current inputs rejects, an advisory message
\* is set, there is no image, and the decode status is untested.
C3_EncodeFailureResets ==
  lastOp = [op |-> "EncodeReject", live |-> TRUE] =>
    /\ errorMessage # ""
    /\ qrDataUrl = <<>>
    /\ maskedDataUrl = <<>>
    /\ decodeStatus = "untested"

\* C4 as claimed: parsePermalinkState of createPermalink of a state with a valid
\* error level and in-range integer mask fields is that state, whatever its text.
C4_RoundTripAnyText ==
  (codec.origin = "state" /\ codec.step = 2) => codec.state = codec.inState

\* C4: parsePermalinkState of createPermalink of a state with a valid error
\* level and in-range integer mask fields is that state, provided its text has
\* no unpaired surrogate code unit.
C4_RoundTrip ==
  (/\ codec.origin = "state"
   /\ codec.step = 2
   /\ CodeUnits(ScalarValues(codec.inState.text)) = codec.inState.text)
    => codec.state = codec.inState

\* the state whose text is &=+%#?~ has made the round trip
C4_Witness ==
  /\ codec.origin = "state"
  /\ codec.step = 2
  /\ codec.inState.text = <<38, 61, 43, 37, 35, 63, 126>>
  /\ codec.inState.maskOptions.sizePercent = 45
  /\ codec.state = codec.inState

\* C5: the status applyMaskAndTest computes is untested when the text is blank,
\* success when the decoder's text is the trimmed text, failed otherwise
\* (no code found, or another text).
C5_ClassifierMatchesReference ==
  (probe.kind = "status" /\ probe.done) =>
    probe.status =
      IF \A i \in 1..Len(probe.text) : IsWhiteSpace(probe.text[i]) THEN "untested"
      ELSE IF probe.decoded # Null /\ probe.decoded = Trim(probe.text) THEN "success"
      ELSE "failed"

\* a text with blanks around it was read back as its trimmed form
C5_Witness ==
  /\ probe.kind = "status"
  /\ probe.done
  /\ probe.text = <<32, 97, 32>>
  /\ probe.decoded = <<97>>
  /\ probe.status = "success"

\* C6: for sizePercent > 0 the painted square has side >= 1 and lies inside the
\* image: 0 <= x, 0 <= y, x + side <= width, y + side <= height.
C6_SquareInsideImage ==
  (probe.kind = "square" /\ probe.done /\ probe.maskOptions.sizePercent > 0) =>
    /\ probe.rect # NoRect
    /\ probe.rect[1].side >= 1
    /\ probe.rect[1].x >= 0
    /\ probe.rect[1].y >= 0
    /\ probe.rect[1].x + probe.rect[1].side <= probe.width
    /\ probe.rect[1].y + probe.rect[1].side <= probe.height

\* a square centred on the right edge of a wide image was moved back inside it
C6_Witness ==
  /\ probe.kind = "square"
  /\ probe.done
  /\ probe.maskOptions.sizePercent = 45
  /\ probe.maskOptions.centerXPercent = 100
  /\ probe.width = QrWidth
  /\ probe.rect # NoRect
  /\ probe.rect[1].x + probe.rect[1].side = probe.width

\* C7: once the component has mounted the address is createPermalink of the
\* current text, options and maskOptions, and the history has not grown.
C7_AddressMirrorsState ==
  mounted =>
    /\ address = createPermalink(text, options, maskOptions)
    /\ historyLength = 1

\* a mask slider was moved
C7_Witness ==
  /\ lastOp.op = "SlideMaskY"
  /\ maskOptions.centerYPercent = 100
  /\ edits = 2

\* C8: while the text trims to empty the status is untested and there is no
\* image, whatever runs were in flight when it became empty.
C8_EmptyTextShowsNothing ==
  (mounted /\ Trim(text) = <<>>) =>
    /\ decodeStatus = "untested"
    /\ qrDataUrl = <<>>
    /\ maskedDataUrl = <<>>

\* the text is blank and a mask run started before it became so has resolved
C8_Witness ==
  /\ mounted
  /\ Trim(text) = <<>>
  /\ lastOp = [op |-> "MaskResolve", live |-> FALSE]

\* C9: the error level is one of L, M, Q, H and the mask fields are in
\* 0..45, 0..100, 0..100 and 10..100.
C9_StateInRange ==
  /\ options.errorLevel \in errorLevels
  /\ maskOptions.sizePercent \in 0..45
  /\ maskOptions.centerXPercent \in 0..100
  /\ maskOptions.centerYPercent \in 0..100
  /\ maskOptions.opacityPercent \in 10..100

\* the session opened with ms=999, mx=-5, mo=1 and the user has edited since
C9_Witness ==
  /\ mounted
  /\ edits > 0
  /\ maskOptions.sizePercent = 45
  /\ maskOptions.centerXPercent = 0
  /\ maskOptions.opacityPercent = 10

\* an in-range decimal integer: digits only, no leading zero
PlainInteger(v, min, max) ==
  /\ v # <<>>
  /\ \A i \in 1..Len(v) : IsDigit(v[i])
  /\ (Len(v) = 1 \/ v[1] # 48)
  /\ DigitsValue(v, 0) >= min
  /\ DigitsValue(v, 0) <= max

\* part is key=value: the value, or Null
ValueOfKey(part, key) ==
  IF Len(part) > Len(key) /\ SubSeq(part, 1, Len(key) + 1) = key \o <<61>>
  THEN SubSeq(part, Len(key) + 2, Len(part))
  ELSE Null

\* the keys t, e, ms, mx, my, mo in that order, e one of L, M, Q, H, the
\* numeric values in-range decimal integers
CanonicalParts(parts) ==
  /\ Len(parts) = 6
  /\ ValueOfKey(parts[1], KeyT) # Null
  /\ \E l \in errorLevels : ValueOfKey(parts[2], KeyE) = LevelString(l)
  /\ ValueOfKey(parts[3], KeyMs) # Null /\ PlainInteger(ValueOfKey(parts[3], KeyMs), 0, 45)
  /\ ValueOfKey(parts[4], KeyMx) # Null /\ PlainInteger(ValueOfKey(parts[4], KeyMx), 0, 100)
  /\ ValueOfKey(parts[5], KeyMy) # Null /\ PlainInteger(ValueOfKey(parts[5], KeyMy), 0, 100)
  /\ ValueOfKey(parts[6], KeyMo) # Null /\ PlainInteger(ValueOfKey(parts[6], KeyMo), 10, 100)

CanonicalQuery(q) == q # <<>> /\ q[1] = 63 /\ CanonicalParts(SplitOn(Tail(q), 38))

\* the value of t is written as URLSearchParams writes it
SerializedText(q) ==
  UrlEncode(UrlDecode(ValueOfKey(SplitOn(Tail(q), 38)[1], KeyT)))
    = ValueOfKey(SplitOn(Tail(q), 38)[1], KeyT)

\* C10 as claimed: createPermalink of parsePermalinkState of a query in
\* canonical form is that query.
C10_ReencodeCanonical ==
  (codec.origin = "query" /\ codec.step = 2 /\ CanonicalQuery(codec.inQuery))
    => codec.query = codec.inQuery

\* C10: createPermalink of parsePermalinkState of a query in canonical form
\* whose t value is written as URLSearchParams writes it is that query.
C10_ReencodeSerialized ==
  (/\ codec.origin = "query"
   /\ codec.step = 2
   /\ CanonicalQuery(codec.inQuery)
   /\ SerializedText(codec.inQuery))
    => codec.query = codec.inQuery

\* ?t=hi&e=Q&ms=10&mx=50&my=50&mo=50 was decoded and encoded again
C10_Witness ==
  /\ codec.origin = "query"
  /\ codec.step = 2
  /\ codec.inQuery = <<63, 116, 61, 104, 105, 38, 101, 61, 81, 38, 109, 115, 61, 49, 48, 38, 109, 120, 61, 53, 48, 38, 109, 121, 61, 53, 48, 38, 109, 111, 61, 53, 48>>
  /\ codec.state.text = <<104, 105>>
  /\ codec.query = codec.inQuery

\* C11: after parsePermalinkState the error level is the value of e when that
\* is exactly L, M, Q or H and M otherwise (missing, empty, anything else); the
\* text is the value of t when t is present and https://example.com when not.
C11_TextAndLevelFallBack ==
  (codec.origin = "query" /\ codec.step >= 1) =>
    LET e == ParamsGet(ParseParams(codec.inQuery), KeyE)
        t == ParamsGet(ParseParams(codec.inQuery), KeyT)
    IN /\ codec.state.options.errorLevel =
            (CASE e = <<76>> -> "L" [] e = <<81>> -> "Q" [] e = <<72>> -> "H" [] OTHER -> "M")
       /\ codec.state.text =
            (IF t # Null THEN t
             ELSE <<104, 116, 116, 112, 115, 58, 47, 47, 101, 120, 97, 109, 112, 108, 101, 46, 99, 111, 109>>)

\* ?e=LM&ms=10&mx=50&my=50&mo=50 was parsed: no t, and an e that is no level
C11_Witness ==
  /\ codec.origin = "query"
  /\ codec.step = 1
  /\ codec.inQuery = <<63, 101, 61, 76, 77, 38, 109, 115, 61, 49, 48, 38, 109, 120, 61, 53, 48, 38, 109, 121, 61, 53, 48, 38, 109, 111, 61, 53, 48>>
  /\ codec.state.text = SampleText
  /\ codec.state.options.errorLevel = "M"

\* C12: after the mask run of the current inputs rejects (the image fails to
\* load, or there is no 2d context), an advisory message is set, there is no
\* masked image, and the decode status is untested.
C12_MaskFailureResets ==
  lastOp = [op |-> "MaskReject", live |-> TRUE] =>
    /\ errorMessage # ""
    /\ maskedDataUrl = <<>>
    /\ decodeStatus = "untested"

\* C13: with sizePercent = 0, whatever the other mask fields, the image the
\* mask stage exports (the canvas the decoder was given) is the base image.
C13_ZeroSizePaintsNothing ==
  (lastOp = [op |-> "MaskResolve", live |-> TRUE] /\ maskOptions.sizePercent = 0) =>
    /\ qrDataUrl # <<>>
    /\ maskedDataUrl = qrDataUrl

\* a run with sizePercent 0, centre (0, 100) and opacity 10 has resolved
C13_Witness ==
  /\ lastOp = [op |-> "MaskResolve", live |-> TRUE]
  /\ maskOptions = [sizePercent |-> 0, centerXPercent |-> 0, centerYPercent |-> 100,
                    opacityPercent |-> 10]
  /\ maskedDataUrl = makeQrDataUrl(Trim(text), options)

\* the state the pipeline owes the current text, options and maskOptions
C14_Settled ==
  (mounted /\ Trim(text) # <<>> /\ Encodable(Trim(text), options)) =>
    /\ qrDataUrl = makeQrDataUrl(Trim(text), options)
    /\ maskedDataUrl = MaskedUrl(qrDataUrl, maskOptions)
    /\ decodeStatus \in {DecodeStatusOf(text, d) : d \in ExactDecoderResults(maskedDataUrl)}
    /\ errorMessage = ""
    /\ maskOptions.sizePercent = 0 => decodeStatus = "success"

C15_AtMostOneLiveRun ==
  Cardinality({r \in encodeRuns : r.active}) + Cardinality({r \in maskRuns : r.active}) <= 1

\* C16: the image a mask run commits was composed on the encoding of the text
\* and error level that are current when it commits.
C16_MaskResultFromCurrentBase ==
  lastOp = [op |-> "MaskResolve", live |-> TRUE] =>
    /\ maskedDataUrl # <<>>
    /\ maskedDataUrl[1].text = Trim(text)
    /\ maskedDataUrl[1].errorLevel = options.errorLevel

\* C17: a step that moves a mask slider leaves text, options, qrDataUrl,
\* errorMessage and the encode runs as they are; it clears the active flag of
\* the mask runs in flight and, when qrDataUrl is not empty, starts one mask run
\* on qrDataUrl with the text and the new maskOptions (none when it is empty).
C17_MaskEditTouchesMaskStageOnly ==
  [][ (/\ edits' = edits + 1
       /\ lastOp'.op \in {"SlideMaskSize", "SlideMaskX", "SlideMaskY", "SlideMaskOpacity"})
      => /\ UNCHANGED <<text, options, qrDataUrl, errorMessage, encodeRuns>>
         /\ maskOptions' # maskOptions
         /\ IF qrDataUrl = <<>>
            THEN maskRuns' = {[q EXCEPT !.active = FALSE] : q \in maskRuns}
            ELSE \E r \in maskRuns' :
                   /\ r.active
                   /\ r.source = qrDataUrl
                   /\ r.text = text
                   /\ r.maskOptions = maskOptions'
                   /\ maskRuns' \ {r} = {[q EXCEPT !.active = FALSE] : q \in maskRuns}
    ]_vars

\* a slider was moved while an encode run and a mask run were in flight
C17_Witness ==
  /\ lastOp.op = "SlideMaskX"
  /\ qrDataUrl # <<>>
  /\ \E r \in encodeRuns : r.active
  /\ \E r \in maskRuns : ~r.active
  /\ \E r \in maskRuns : r.active /\ r.maskOptions = maskOptions /\ r.source = qrDataUrl

\* C18: Reset Options leaves errorLevel M and maskOptions (18, 50, 50, 100) and
\* does not change the text; a slider changes its own mask field only, the
\* select the error level only, the textarea the text only.
C18_ControlsChangeOwnField ==
  [][ edits' = edits + 1 =>
        /\ lastOp'.op = "ResetOptions" =>
             /\ options' = [errorLevel |-> "M"]
             /\ maskOptions' = [sizePercent |-> 18, centerXPercent |-> 50,
                                centerYPercent |-> 50, opacityPercent |-> 100]
             /\ text' = text
        /\ lastOp'.op = "SlideMaskSize" =>
             /\ maskOptions' = [maskOptions EXCEPT !.sizePercent = maskOptions'.sizePercent]
             /\ UNCHANGED <<text, options>>
        /\ lastOp'.op = "SlideMaskX" =>
             /\ maskOptions' = [maskOptions EXCEPT !.centerXPercent = maskOptions'.centerXPercent]
             /\ UNCHANGED <<text, options>>
        /\ lastOp'.op = "SlideMaskY" =>
             /\ maskOptions' = [maskOptions EXCEPT !.centerYPercent = maskOptions'.centerYPercent]
             /\ UNCHANGED <<text, options>>
        /\ lastOp'.op = "SlideMaskOpacity" =>
             /\ maskOptions' = [maskOptions EXCEPT !.opacityPercent = maskOptions'.opacityPercent]
             /\ UNCHANGED <<text, options>>
        /\ lastOp'.op = "SelectErrorLevel" => UNCHANGED <<text, maskOptions>>
        /\ lastOp'.op = "EditText" => UNCHANGED <<options, maskOptions>>
        /\ lastOp'.op \in {"ResetOptions", "SlideMaskSize", "SlideMaskX", "SlideMaskY",
                           "SlideMaskOpacity", "SelectErrorLevel", "EditText"}
    ]_vars

\* in the session opened with a blank text and ms=999, Reset Options was pressed
\* after another edit
C18_Witness ==
  /\ lastOp.op = "ResetOptions"
  /\ edits = 2
  /\ text = <<32>>
  /\ options.errorLevel = "M"
  /\ maskOptions.sizePercent = 18
  /\ maskOptions.opacityPercent = 100
  /\ defaultObjects = {"options", "maskOptions"}

=============================================================================
